---- MODULE Spec2Model ----
(***************************************************************************)
(* Model of idr_torch.interface.Interface: the launcher-API registry       *)
(* (_available_APIs), its priority-ordered registration, the selection of  *)
(* the active launcher, discovery of APIs in a namespace, and the          *)
(* forwarding accessors that capture and re-emit warnings under the        *)
(* warnings filters in force (ambient).                                    *)
(*                                                                         *)
(* Objects are identified by their index in heap (identity = index).       *)
(* A DefaultAPI built by the fallback of get_launcher_API is never stored  *)
(* by the facade; it is identified by a negative address that differs from *)
(* the address of the object the caller still holds (ret.api).             *)
(***************************************************************************)
EXTENDS Integers, Sequences, FiniteSets, TLC

\* ------------------------------------------------------------------ bounds
\* Largest length the registry may reach under Spec (registry operations).
MaxReg == 4
\* Largest length the registry may reach under FwdSpec (all operations).
MaxFwdReg == 3
\* Priorities of user-registered APIs range over 0..MaxPriority.
MaxPriority == 1

Priorities == 0..MaxPriority

VARIABLES
  heap,             \* the API objects that exist: id -> [cls, priority]
  _available_APIs,  \* Interface._available_APIs: sequence of object ids
  launchers,        \* ids of the objects whose is_launcher() is True now
  __dir,            \* Interface.__dir, the list __dir__() returns
  ambient,          \* action of the warnings filters the caller has installed
  ret               \* what the last operation returned / did

vars == <<heap, _available_APIs, launchers, __dir, ambient, ret>>

\* --------------------------------------------------- external collaborators
\* Classes. "API" is the contract; DefaultAPI (shipped), UserAPI and PluginAPI
\* (user-defined) are strict subclasses; anything else is unrelated to it.
StrictSubclasses == {"DefaultAPI", "UserAPI", "PluginAPI"}

issubclass_API(cls) == cls = "API" \/ cls \in StrictSubclasses

\* priority of DefaultAPI (class attribute)
DefaultPriority == 0

\* API.name of an instance of cls
Name(cls) ==
  CASE cls = "DefaultAPI" -> "Default"
    [] cls = "UserAPI" -> "User"
    [] OTHER -> "Plugin"

IdrTorchWarning == "IdrTorchWarning"
OtherWarning == "UserWarning"

\* The forwarded query names, as summary_str reads them: add_API_functions
\* forwards, for every name of config.__all__, the __name__ of the function
\* bound to it (the same name here).
config_all ==
  <<"rank", "local_rank", "world_size", "local_world_size", "cpus",
    "nodelist", "hostname", "master_addr", "master_port">>

Queries == {config_all[k] : k \in 1..Len(config_all)}

\* A warning is its category and the place that issues it (the text and the
\* line of the warnings.warn call): two warnings with the same category and
\* place are the same warning to the warnings registry.
Warning(category, place) == <<category, place>>

Category(w) == w[1]

\* Warnings an instance of cls issues while answering is_launcher(); every
\* PluginAPI instance issues the same one.
IsLauncherWarns(cls) ==
  IF cls = "PluginAPI" THEN <<Warning(OtherWarning, "is_launcher")>> ELSE <<>>

\* Warnings an instance of cls issues while answering query Q, before it
\* returns or signals "value unavailable".
QueryWarns(cls, Q) ==
  IF cls = "DefaultAPI"
    THEN (IF Q \in {"cpus", "master_port"}
            THEN <<Warning(IdrTorchWarning, Q)>> ELSE <<>>)
    ELSE CASE Q = "rank" -> <<Warning(IdrTorchWarning, Q)>>
           [] Q = "world_size" ->
                <<Warning(IdrTorchWarning, Q), Warning(OtherWarning, Q)>>
           [] Q = "hostname" -> <<Warning(OtherWarning, Q)>>
           [] Q = "nodelist" -> <<Warning(IdrTorchWarning, Q)>>
           [] OTHER -> <<>>

\* Whether query Q of an instance of cls signals "value unavailable".
QueryRaises(cls, Q) ==
  CASE cls = "DefaultAPI" -> Q \in {"master_addr", "master_port"}
    [] cls = "PluginAPI" -> Q \in {"nodelist", "local_world_size"}
    [] OTHER -> FALSE

\* The value query Q of an instance of cls returns.
QueryValue(cls, Q) == <<"value", Q, Name(cls)>>

ValueUnavailable(cls, Q) == <<"unavailable", Q, Name(cls)>>

\* ------------------------------------------------------- warnings filters
\* Actions the caller may have installed with warnings.simplefilter; "default"
\* is the one in force when nothing was installed.
AmbientActions == {"default", "always", "error", "ignore"}

\* The filters in force: the categories an enclosing catch_warnings ignores
\* (its filter is ahead of the others) and the action for every other one.
Filters(ignored, action) == [ignored |-> ignored, action |-> action]

\* The action the filters select for warning w.
Action(w, flt) == IF Category(w) \in flt.ignored THEN "ignore" ELSE flt.action

\* The exception a warning becomes under the action "error".
WarningError(w) == <<"warning", w[1], w[2]>>

\* Index of the first of the warnings ws that the filters turn into an
\* exception (0: none).
FirstError(ws, flt) ==
  IF \E k \in 1..Len(ws) : Action(ws[k], flt) = "error"
    THEN CHOOSE k \in 1..Len(ws) :
           /\ Action(ws[k], flt) = "error"
           /\ \A j \in 1..(k - 1) : Action(ws[j], flt) # "error"
    ELSE 0

\* ------------------------------------------------------------- namespaces
\* A namespace is the sequence of its bindings in dir() order.  A binding is
\* a class (instantiated with no argument it has the given priority), an
\* existing object, or something that is neither.
ClassBinding(cls, p) == [kind |-> "class", cls |-> cls, priority |-> p, obj |-> 0]
InstanceBinding(o) == [kind |-> "instance", cls |-> "", priority |-> 0, obj |-> o]
OtherBinding == [kind |-> "other", cls |-> "", priority |-> 0, obj |-> 0]

\* Objects that exist before the facade is built: the instances bound in the
\* plugin namespaces below.
PluginObjects ==
  << [cls |-> "PluginAPI", priority |-> 1],
     [cls |-> "API", priority |-> 0] >>

\* The shipped namespace idr_torch.api, in dir() order:
\* API, AutoMasterAddressPort, DefaultAPI, decorate_methods, modifiers.
api ==
  << ClassBinding("API", 0), OtherBinding,
     ClassBinding("DefaultAPI", DefaultPriority), OtherBinding, OtherBinding >>

\* A user namespace with a subclass, an instance of a subclass, and
\* non-qualifying names (the contract, an instance of the contract, others).
plugin ==
  << ClassBinding("API", 0), ClassBinding("PluginAPI", MaxPriority),
     ClassBinding("Unrelated", 0), InstanceBinding(1), InstanceBinding(2),
     OtherBinding >>

\* A user namespace without any qualifying name.
helpers ==
  << ClassBinding("API", 0), ClassBinding("Unrelated", 0),
     InstanceBinding(2), OtherBinding >>

Modules == {api, plugin, helpers}

\* ------------------------------------------------------------ register_API
InsertAt(s, i, x) == SubSeq(s, 1, i - 1) \o <<x>> \o SubSeq(s, i, Len(s))

RECURSIVE register_scan(_, _, _, _)
register_scan(reg, h, new_API, i) ==
  IF i > Len(reg) THEN Append(reg, new_API)
  ELSE IF h[reg[i]].priority > h[new_API].priority
         THEN register_scan(reg, h, new_API, i + 1)
         ELSE InsertAt(reg, i, new_API)

RECURSIVE register_scan_stable(_, _, _, _)
register_scan_stable(reg, h, new_API, i) ==
  IF i > Len(reg) THEN Append(reg, new_API)
  ELSE IF h[reg[i]].priority >= h[new_API].priority
         THEN register_scan_stable(reg, h, new_API, i + 1)
         ELSE InsertAt(reg, i, new_API)

\* register_API with the comparison >= (equal priorities keep insertion order)
register_API_stable(reg, h, new_API) == register_scan_stable(reg, h, new_API, 1)

\* register_API that always appends
register_API_append(reg, h, new_API) == Append(reg, new_API)

\* register_API that rejects an object that is already registered
register_API_dedup(reg, h, new_API) ==
  IF \E i \in 1..Len(reg) : reg[i] = new_API THEN reg
  ELSE register_scan(reg, h, new_API, 1)

\* Interface.register_API: the registry after registering object new_API.
register_API(reg, h, new_API) == register_scan(reg, h, new_API, 1)

\* ------------------------------------------------------- get_launcher_API
\* Address of a DefaultAPI() built now: any address no live object has.
FreshAddress(held) == IF held = -1 THEN -2 ELSE -1

\* Outcome of one selection: the selected object (0: none), whether it is a
\* newly built DefaultAPI, the registry positions whose is_launcher() was
\* called, how the call ended (val the exception when it raised) and the
\* warnings the is_launcher() calls issued.
Selection(api_, fresh, consulted, kind, val, emitted) ==
  [api |-> api_, fresh |-> fresh, consulted |-> consulted, kind |-> kind,
   val |-> val, emitted |-> emitted]

RECURSIVE launcher_scan(_, _, _, _, _, _, _, _)
launcher_scan(reg, h, L, held, flt, i, consulted, emitted) ==
  IF i > Len(reg)
    THEN Selection(FreshAddress(held), TRUE, consulted, "return", <<>>, emitted)
  ELSE LET ws == IsLauncherWarns(h[reg[i]].cls)
           e == FirstError(ws, flt)
       IN IF e # 0
            THEN \* the warning leaves is_launcher() as an exception
                 Selection(0, FALSE, Append(consulted, i), "raise",
                           WarningError(ws[e]), emitted \o SubSeq(ws, 1, e))
          ELSE IF reg[i] \in L
            THEN Selection(reg[i], FALSE, Append(consulted, i), "return", <<>>,
                           emitted \o ws)
          ELSE launcher_scan(reg, h, L, held, flt, i + 1, Append(consulted, i),
                             emitted \o ws)

RECURSIVE launcher_scan_last(_, _, _, _, _, _, _, _, _)
launcher_scan_last(reg, h, L, held, flt, i, consulted, emitted, best) ==
  IF i > Len(reg)
    THEN (IF best = 0
            THEN Selection(FreshAddress(held), TRUE, consulted, "return", <<>>, emitted)
            ELSE Selection(reg[best], FALSE, consulted, "return", <<>>, emitted))
  ELSE LET ws == IsLauncherWarns(h[reg[i]].cls)
           e == FirstError(ws, flt)
       IN IF e # 0
            THEN Selection(0, FALSE, Append(consulted, i), "raise",
                           WarningError(ws[e]), emitted \o SubSeq(ws, 1, e))
            ELSE launcher_scan_last(reg, h, L, held, flt, i + 1,
                                    Append(consulted, i), emitted \o ws,
                                    IF reg[i] \in L THEN i ELSE best)

\* get_launcher_API that keeps scanning and returns the last active entry
get_launcher_API_last(reg, h, L, held, flt) ==
  launcher_scan_last(reg, h, L, held, flt, 1, <<>>, <<>>, 0)

\* get_launcher_API that returns one shared DefaultAPI instance
get_launcher_API_shared(reg, h, L, held, flt) ==
  LET s == launcher_scan(reg, h, L, held, flt, 1, <<>>, <<>>)
  IN IF s.fresh THEN [s EXCEPT !.api = -1] ELSE s

\* Interface.get_launcher_API under the filters flt: is_launcher() of the
\* entries from the head, until one is True (that entry is returned), one
\* raises (a warning the filters turn into an exception), or none is left (a
\* new DefaultAPI is returned).  held is the address of the object the caller
\* still holds.
get_launcher_API(reg, h, L, held, flt) ==
  launcher_scan(reg, h, L, held, flt, 1, <<>>, <<>>)

\* class of a selected object
ClassOf(h, sel) == IF sel.fresh THEN "DefaultAPI" ELSE h[sel.api].cls

\* -------------------------------------------------- crawl_module_for_APIs
isclass(obj) == obj.kind = "class"

isinstance_API(h, obj) == obj.kind = "instance" /\ issubclass_API(h[obj.obj].cls)

\* Whether crawl_module_for_APIs registers something for binding obj.
Qualifies(h, obj) ==
  \/ isclass(obj) /\ issubclass_API(obj.cls) /\ obj.cls # "API"
  \/ isinstance_API(h, obj) /\ h[obj.obj].cls # "API"

Crawled(reg, h) == [reg |-> reg, heap |-> h]

RECURSIVE crawl_names(_, _, _, _)
crawl_names(reg, h, module, k) ==
  IF k > Len(module) THEN Crawled(reg, h)
  ELSE LET obj == module[k] IN
    IF isclass(obj) /\ issubclass_API(obj.cls) /\ obj.cls # "API"
      THEN \* obj is the class: instantiate it, register the new instance
           LET h2 == Append(h, [cls |-> obj.cls, priority |-> obj.priority])
           IN crawl_names(register_API(reg, h2, Len(h2)), h2, module, k + 1)
    ELSE IF isinstance_API(h, obj) /\ h[obj.obj].cls # "API"
      THEN \* obj is already the instance
           crawl_names(register_API(reg, h, obj.obj), h, module, k + 1)
    ELSE crawl_names(reg, h, module, k + 1)

RECURSIVE crawl_names_all(_, _, _, _)
crawl_names_all(reg, h, module, k) ==
  IF k > Len(module) THEN Crawled(reg, h)
  ELSE LET obj == module[k] IN
    IF isclass(obj) /\ issubclass_API(obj.cls)
      THEN LET h2 == Append(h, [cls |-> obj.cls, priority |-> obj.priority])
           IN crawl_names_all(register_API(reg, h2, Len(h2)), h2, module, k + 1)
    ELSE IF isinstance_API(h, obj)
      THEN crawl_names_all(register_API(reg, h, obj.obj), h, module, k + 1)
    ELSE crawl_names_all(reg, h, module, k + 1)

\* crawl_module_for_APIs without the exclusion of the contract API itself
crawl_module_for_APIs_all(reg, h, module) == crawl_names_all(reg, h, module, 1)

RECURSIVE crawl_names_skip_default(_, _, _, _)
crawl_names_skip_default(reg, h, module, k) ==
  IF k > Len(module) THEN Crawled(reg, h)
  ELSE LET obj == module[k] IN
    IF isclass(obj) /\ issubclass_API(obj.cls) /\ obj.cls \notin {"API", "DefaultAPI"}
      THEN LET h2 == Append(h, [cls |-> obj.cls, priority |-> obj.priority])
           IN crawl_names_skip_default(register_API(reg, h2, Len(h2)), h2, module, k + 1)
    ELSE IF isinstance_API(h, obj) /\ h[obj.obj].cls \notin {"API", "DefaultAPI"}
      THEN crawl_names_skip_default(register_API(reg, h, obj.obj), h, module, k + 1)
    ELSE crawl_names_skip_default(reg, h, module, k + 1)

\* crawl_module_for_APIs that also leaves DefaultAPI out
crawl_module_for_APIs_skip_default(reg, h, module) ==
  crawl_names_skip_default(reg, h, module, 1)

\* Interface.crawl_module_for_APIs: registry and heap after the crawl.
crawl_module_for_APIs(reg, h, module) == crawl_names(reg, h, module, 1)

\* Interface.crawl_shipped_APIs
crawl_shipped_APIs(reg, h) == crawl_module_for_APIs(reg, h, api)

\* ----------------------------------------------------------------- make_dir
\* dir(EmptyClass())
EmptyClassDir ==
  <<"__class__", "__delattr__", "__dict__", "__dir__", "__doc__", "__eq__",
    "__format__", "__ge__", "__getattribute__", "__getstate__", "__gt__",
    "__hash__", "__init__", "__init_subclass__", "__le__", "__lt__",
    "__module__", "__ne__", "__new__", "__reduce__", "__reduce_ex__",
    "__repr__", "__setattr__", "__sizeof__", "__str__", "__subclasshook__",
    "__weakref__">>

\* Interface.__all__, set by add_other_object_for_easy_access
interface_all ==
  <<"api", "API", "AutoMasterAddressPort", "decorate_methods",
    "IdrTorchWarning", "modifiers", "register_API", "get_launcher_API",
    "current_API", "all_APIs", "crawl_module_for_APIs", "summary">>

\* Interface.make_dir
make_dir == EmptyClassDir \o config_all \o interface_all \o <<"__version__">>

\* ------------------------------------------------- forwarding (redirect)
RECURSIVE record(_, _, _, _, _)
\* warnings.warn for ws[k], ws[k+1], ... inside catch_warnings(record=True):
\* registry is the warnings registry of the scope (empty when the scope is
\* entered), log the list the scope has recorded.
record(ws, flt, k, registry, log) ==
  IF k > Len(ws) THEN log
  ELSE LET w == ws[k]
           action == Action(w, flt)
       IN IF w \in registry \/ action = "ignore"
            THEN record(ws, flt, k + 1, registry, log)
          ELSE IF action = "error"
            THEN log
          ELSE IF action = "always"
            THEN record(ws, flt, k + 1, registry, Append(log, w))
          ELSE \* "default": shown once for its text, category and line
               record(ws, flt, k + 1, registry \cup {w}, Append(log, w))

\* What warnings.catch_warnings(record=True) records of the warnings ws issued
\* in its scope under the filters flt, which it leaves in force: none that
\* they ignore, under "default" only the first of equal warnings.
Recorded(ws, flt) == record(ws, flt, 1, {}, <<>>)

\* One execution of a forwarding accessor: the query, the selected API, how
\* it ended, the warnings issued inside the capture scope, the lists handed to
\* warning_filter.warn, and the warnings that reached the ambient channel
\* while the call ran.
Call(q, sel, kind, val, emitted, handed, leaked) ==
  [q |-> q, api |-> sel.api, fresh |-> sel.fresh, consulted |-> sel.consulted,
   kind |-> kind, val |-> val, emitted |-> emitted, handed |-> handed,
   leaked |-> leaked]

\* The with block of redirect: the selection, then the query on the selected
\* API; how the block ended, the warnings issued in it and the list recorded.
with_block(reg, h, L, dest_name, flt) ==
  LET sel == get_launcher_API(reg, h, L, 0, flt)
      Block(kind, val, emitted) ==
        [sel |-> sel, kind |-> kind, val |-> val, emitted |-> emitted,
         warning_list |-> Recorded(emitted, flt)]
  IN IF sel.kind = "raise"
       THEN \* is_launcher() raised: the query is not called
            Block("raise", sel.val, sel.emitted)
     ELSE LET cls == IF sel.fresh THEN "DefaultAPI" ELSE h[sel.api].cls
              ws == QueryWarns(cls, dest_name)
              e == FirstError(ws, flt)
          IN IF e # 0
               THEN \* the warning leaves the query as an exception
                    Block("raise", WarningError(ws[e]),
                          sel.emitted \o SubSeq(ws, 1, e))
             ELSE IF QueryRaises(cls, dest_name)
               THEN Block("raise", ValueUnavailable(cls, dest_name), sel.emitted \o ws)
             ELSE Block("return", QueryValue(cls, dest_name), sel.emitted \o ws)

\* redirect that hands every record to warning_filter.warn one by one
redirect_warn_each(reg, h, L, dest_name, flt) ==
  LET b == with_block(reg, h, L, dest_name, flt)
  IN IF b.kind = "raise"
       THEN Call(dest_name, b.sel, "raise", b.val, b.emitted, <<>>, <<>>)
       ELSE Call(dest_name, b.sel, "return", b.val, b.emitted,
                 [k \in 1..Len(b.warning_list) |-> <<b.warning_list[k]>>], <<>>)

\* redirect that answers with the DefaultAPI value when the query is unavailable
redirect_substitute(reg, h, L, dest_name, flt) ==
  LET b == with_block(reg, h, L, dest_name, flt)
  IN IF b.kind = "raise" /\ b.val[1] = "warning"
       THEN Call(dest_name, b.sel, "raise", b.val, b.emitted, <<>>, <<>>)
       ELSE Call(dest_name, b.sel, "return",
                 IF b.kind = "raise" THEN QueryValue("DefaultAPI", dest_name)
                 ELSE b.val,
                 b.emitted,
                 IF b.warning_list # <<>> THEN <<b.warning_list>> ELSE <<>>, <<>>)

\* redirect bound to the API that is selected with no launcher active
\* (the selection made once, when the accessor was built)
redirect_bound(reg, h, L, dest_name, flt) ==
  LET b == with_block(reg, h, {}, dest_name, flt)
  IN IF b.kind = "raise"
       THEN Call(dest_name, b.sel, "raise", b.val, b.emitted, <<>>, <<>>)
       ELSE Call(dest_name, b.sel, "return", b.val, b.emitted,
                 IF b.warning_list # <<>> THEN <<b.warning_list>> ELSE <<>>, <<>>)

\* Interface.make_new_function.redirect for the query dest_name, run under
\* the filters flt.
redirect(reg, h, L, dest_name, flt) ==
  LET b == with_block(reg, h, L, dest_name, flt)
  IN IF b.kind = "raise"
       THEN \* the error leaves the with block; warning_filter.warn is not reached
            Call(dest_name, b.sel, "raise", b.val, b.emitted, <<>>, <<>>)
       ELSE Call(dest_name, b.sel, "return", b.val, b.emitted,
                 IF b.warning_list # <<>> THEN <<b.warning_list>> ELSE <<>>, <<>>)

\* ------------------------------------------------------------ summary_str
\* The queries summary_str reads, in the order it reads them.
summary_names ==
  <<"rank", "local_rank", "world_size", "local_world_size", "cpus",
    "nodelist", "hostname", "master_addr", "master_port">>

RECURSIVE summary_values(_, _, _, _, _, _)
summary_values(reg, h, L, flt, k, calls) ==
  IF k > Len(summary_names) THEN calls
  ELSE LET c == redirect(reg, h, L, summary_names[k], flt)
       IN IF c.kind = "raise" THEN Append(calls, c)
          ELSE summary_values(reg, h, L, flt, k + 1, Append(calls, c))

\* Interface.summary_str: the selection current_API makes, then the forwarded
\* calls, up to the first that raises.
summary_str(reg, h, L, flt) ==
  LET current == get_launcher_API(reg, h, L, 0, flt)
  IN [current |-> current,
      calls |-> IF current.kind = "raise" THEN <<>>
                ELSE summary_values(reg, h, L, flt, 1, <<>>)]

\* -------------------------------------------------------------- the state
Ret(op, api_, fresh, consulted, kind, val, calls) ==
  [op |-> op, api |-> api_, fresh |-> fresh, consulted |-> consulted,
   kind |-> kind, val |-> val, calls |-> calls, held |-> 0]

NoRet(op) == Ret(op, 0, FALSE, <<>>, "return", <<>>, <<>>)

\* Interface.__init__: crawl the shipped namespace into an empty registry,
\* then freeze the attribute list.
Constructed == crawl_shipped_APIs(<<>>, PluginObjects)

Init ==
  /\ heap = Constructed.heap
  /\ _available_APIs = Constructed.reg
  /\ launchers = {}
  /\ __dir = make_dir
  /\ ambient = "default"
  /\ ret = NoRet("__init__")

Registered == {_available_APIs[i] : i \in 1..Len(_available_APIs)}

\* register_API(UserAPI(priority=p)) on a new object
RegisterNew(p, cap) ==
  /\ Len(_available_APIs) < cap
  /\ heap' = Append(heap, [cls |-> "UserAPI", priority |-> p])
  /\ _available_APIs' = register_API(_available_APIs, heap', Len(heap'))
  /\ ret' = Ret("register_API", Len(heap'), FALSE, <<>>, "return", <<>>, <<>>)
  /\ UNCHANGED <<launchers, __dir, ambient>>

\* register_API(o) on an object that exists already (registered or not)
RegisterExisting(o, cap) ==
  /\ Len(_available_APIs) < cap
  /\ heap[o].cls \in StrictSubclasses
  /\ _available_APIs' = register_API(_available_APIs, heap, o)
  /\ ret' = Ret("register_API", o, FALSE, <<>>, "return", <<>>, <<>>)
  /\ UNCHANGED <<heap, launchers, __dir, ambient>>

QualifyingNames(h, module) == {k \in 1..Len(module) : Qualifies(h, module[k])}

\* crawl_module_for_APIs(module)
CrawlModule(module, cap) ==
  /\ Len(_available_APIs) + Cardinality(QualifyingNames(heap, module)) <= cap
  /\ LET c == crawl_module_for_APIs(_available_APIs, heap, module)
     IN /\ heap' = c.heap
        /\ _available_APIs' = c.reg
  /\ ret' = Ret("crawl_module_for_APIs", 0, FALSE, <<>>, "return", module, <<>>)
  /\ UNCHANGED <<launchers, __dir, ambient>>

\* The environment changes what is_launcher() of a registered object reports.
SetLauncher(o) ==
  /\ launchers' = IF o \in launchers THEN launchers \ {o} ELSE launchers \cup {o}
  /\ ret' = NoRet("environ")
  /\ UNCHANGED <<heap, _available_APIs, __dir, ambient>>

\* The caller installs another action with warnings.simplefilter.
SetFilter(action) ==
  /\ action # ambient
  /\ ambient' = action
  /\ ret' = NoRet("simplefilter")
  /\ UNCHANGED <<heap, _available_APIs, launchers, __dir>>

\* The filters in force in the caller's code.
CallerFilters == Filters({}, ambient)

\* The object the caller holds from the call before, if that was a
\* get_launcher_API() that returned (0: none).
Held == IF ret.op = "get_launcher_API" THEN ret.api ELSE 0

\* What a caller can read of an API object: its class and its priority.
Describe(h, sel) ==
  IF sel.fresh THEN <<"DefaultAPI", DefaultPriority>>
  ELSE <<h[sel.api].cls, h[sel.api].priority>>

\* get_launcher_API(), the caller still holding what the last call returned
GetLauncherAPI ==
  /\ LET sel == get_launcher_API(_available_APIs, heap, launchers, Held, CallerFilters)
     IN ret' = [Ret("get_launcher_API", sel.api, sel.fresh, sel.consulted,
                    sel.kind,
                    IF sel.kind = "raise" THEN sel.val ELSE Describe(heap, sel),
                    <<>>) EXCEPT !.held = Held]
  /\ UNCHANGED <<heap, _available_APIs, launchers, __dir, ambient>>

\* the property current_API
CurrentAPI ==
  /\ LET sel == get_launcher_API(_available_APIs, heap, launchers, 0, CallerFilters)
     IN ret' = Ret("current_API", sel.api, sel.fresh, sel.consulted, sel.kind,
                   IF sel.kind = "raise" THEN sel.val
                   ELSE Name(ClassOf(heap, sel)), <<>>)
  /\ UNCHANGED <<heap, _available_APIs, launchers, __dir, ambient>>

\* an access to the forwarded query Q: a read of the property, or a call of
\* the method when make_new_function was given as_property=False (the code
\* that runs is redirect in both cases)
Redirect(Q) ==
  /\ LET c == redirect(_available_APIs, heap, launchers, Q, CallerFilters)
     IN ret' = Ret("redirect", c.api, c.fresh, c.consulted, c.kind, c.val, <<c>>)
  /\ UNCHANGED <<heap, _available_APIs, launchers, __dir, ambient>>

\* What summary_str does: it reads current_API, then the queries; it ends with
\* the error of the first of these that raises, or returns the name and the
\* values.
SummaryRet(op, s) ==
  LET sel == s.current
      calls == s.calls
      n == Len(calls)
  IN IF sel.kind = "raise"
       THEN Ret(op, sel.api, sel.fresh, sel.consulted, "raise", sel.val, calls)
     ELSE IF calls[n].kind = "raise"
       THEN Ret(op, sel.api, sel.fresh, sel.consulted, "raise", calls[n].val, calls)
     ELSE Ret(op, sel.api, sel.fresh, sel.consulted, "return",
              <<Name(ClassOf(heap, sel))>> \o [k \in 1..n |-> calls[k].val],
              calls)

\* summary_str()
SummaryStr ==
  /\ ret' = SummaryRet("summary_str",
                       summary_str(_available_APIs, heap, launchers, CallerFilters))
  /\ UNCHANGED <<heap, _available_APIs, launchers, __dir, ambient>>

\* summary(): summary_str() inside catch_warnings(action="ignore",
\* category=IdrTorchWarning), whose filter is ahead of the caller's.
Summary ==
  /\ ret' = SummaryRet("summary",
                       summary_str(_available_APIs, heap, launchers,
                                   Filters({IdrTorchWarning}, ambient)))
  /\ UNCHANGED <<heap, _available_APIs, launchers, __dir, ambient>>

\* __dir__()
Dir ==
  /\ ret' = Ret("__dir__", 0, FALSE, <<>>, "return", __dir, <<>>)
  /\ UNCHANGED <<heap, _available_APIs, launchers, __dir, ambient>>

\* the property all_APIs
AllAPIs ==
  /\ ret' = Ret("all_APIs", 0, FALSE, <<>>, "return", _available_APIs, <<>>)
  /\ UNCHANGED <<heap, _available_APIs, launchers, __dir, ambient>>

\* The registry operations and the selection.  No operation here has a
\* capture scope, so of the caller's filters it only matters whether they
\* raise a warning ("error") or not ("default").
Next ==
  \/ \E p \in Priorities : RegisterNew(p, MaxReg)
  \/ \E o \in 1..Len(heap) : RegisterExisting(o, MaxReg)
  \/ \E module \in Modules : CrawlModule(module, MaxReg)
  \/ \E o \in Registered : SetLauncher(o)
  \/ \E action \in {"default", "error"} : SetFilter(action)
  \/ GetLauncherAPI
  \/ CurrentAPI
  \/ Dir
  \/ AllAPIs

Spec == Init /\ [][Next]_vars

\* Every operation of the facade, under every action of the caller's filters;
\* new APIs are registered with the lowest or the highest priority.
FwdNext ==
  \/ \E p \in {0, MaxPriority} : RegisterNew(p, MaxFwdReg)
  \/ \E o \in 1..Len(heap) : RegisterExisting(o, MaxFwdReg)
  \/ \E module \in Modules : CrawlModule(module, MaxFwdReg)
  \/ \E o \in Registered : SetLauncher(o)
  \/ \E action \in AmbientActions : SetFilter(action)
  \/ GetLauncherAPI
  \/ CurrentAPI
  \/ \E Q \in Queries : Redirect(Q)
  \/ SummaryStr
  \/ Summary
  \/ Dir
  \/ AllAPIs

FwdSpec == Init /\ [][FwdNext]_vars

\* =================================================================== claims
PriorityOf(h, o) == h[o].priority

\* Some registered API is active.
SomeActive(reg, L) == \E i \in 1..Len(reg) : reg[i] \in L

\* Position of the first active entry of the registry (0: none).
FirstActive(reg, L) ==
  IF SomeActive(reg, L)
    THEN CHOOSE i \in 1..Len(reg) :
           reg[i] \in L /\ \A j \in 1..(i - 1) : reg[j] \notin L
    ELSE 0

\* Number of entries whose is_launcher() a selection calls: those up to the
\* first active one, all when none is active.
Consulted(reg, L) == IF SomeActive(reg, L) THEN FirstActive(reg, L) ELSE Len(reg)

\* Some of the warnings ws is one the filters turn into an exception.
TurnedIntoError(ws, flt) ==
  \E k \in 1..Len(ws) : Category(ws[k]) \notin flt.ignored /\ flt.action = "error"

\* An is_launcher() call of the selection does not report True or False: it
\* raises, because it issues a warning that the filters turn into an exception.
IsLauncherFails(reg, h, L, flt) ==
  \E i \in 1..Consulted(reg, L) : TurnedIntoError(IsLauncherWarns(h[reg[i]].cls), flt)

\* The step registers ret'.api at position k of the registry.
InsertedAt(k) ==
  /\ k \in 1..(Len(_available_APIs) + 1)
  /\ _available_APIs' = InsertAt(_available_APIs, k, ret'.api)

\* The objects built by register_API(UserAPI(priority=p)) are registered when
\* they are built, so among those registered once the later one has the
\* larger id.
RegisteredOnce(o) ==
  /\ heap[o].cls = "UserAPI"
  /\ Cardinality({i \in 1..Len(_available_APIs) : _available_APIs[i] = o}) = 1

\* Active registered APIs that tie with the returned one and, like it, were
\* registered exactly once by register_API(UserAPI(...)).
ActiveTies ==
  {o \in Registered \cap launchers :
     /\ RegisteredOnce(o)
     /\ PriorityOf(heap, o) = PriorityOf(heap, ret.api)}

\* Of the active APIs that tie on priority, get_launcher_API() returned the
\* one registered first.
TieFirstRegisteredSelected ==
  (ret.op = "get_launcher_API" /\ ret.kind = "return" /\ ~ret.fresh
     /\ RegisteredOnce(ret.api))
    => \A o \in ActiveTies : ret.api <= o

\* Of the active APIs that tie on priority, get_launcher_API() returned the
\* one registered last.
TieLastRegisteredSelected ==
  (ret.op = "get_launcher_API" /\ ret.kind = "return" /\ ~ret.fresh
     /\ RegisteredOnce(ret.api))
    => \A o \in ActiveTies : ret.api >= o

\* C1 as stated: an API is registered behind every registered API of the same
\* priority (registration order breaks ties), and of the active APIs that tie
\* on priority get_launcher_API() returns the one registered first.
C1_TieBreakRegistrationOrder ==
  [][ /\ (ret'.op = "register_API") =>
           \E k \in 1..(Len(_available_APIs) + 1) :
             /\ InsertedAt(k)
             /\ \A j \in 1..(k - 1) :
                  PriorityOf(heap', _available_APIs[j]) >= PriorityOf(heap', ret'.api)
             /\ \A j \in k..Len(_available_APIs) :
                  PriorityOf(heap', _available_APIs[j]) < PriorityOf(heap', ret'.api)
      /\ TieFirstRegisteredSelected' ]_vars

\* C1 amended: an API is registered ahead of every registered API of the same
\* priority (the most recently registered of a tie is nearest the head), and
\* of the active APIs that tie on priority get_launcher_API() returns the one
\* registered last.
C1_TieBreakNewestFirst ==
  [][ /\ (ret'.op = "register_API") =>
           \E k \in 1..(Len(_available_APIs) + 1) :
             /\ InsertedAt(k)
             /\ \A j \in 1..(k - 1) :
                  PriorityOf(heap', _available_APIs[j]) > PriorityOf(heap', ret'.api)
             /\ \A j \in k..Len(_available_APIs) :
                  PriorityOf(heap', _available_APIs[j]) <= PriorityOf(heap', ret'.api)
      /\ TieLastRegisteredSelected' ]_vars

\* A(priority 1), B(priority 0), C(priority 1) registered in this order after
\* construction, A and C the only active APIs: C is ahead of A and is returned.
C1_Witness ==
  /\ Len(heap) = 6
  /\ heap[4] = [cls |-> "UserAPI", priority |-> 1]
  /\ heap[5] = [cls |-> "UserAPI", priority |-> 0]
  /\ heap[6] = [cls |-> "UserAPI", priority |-> 1]
  /\ _available_APIs = <<6, 4, 5, 3>>
  /\ launchers = {4, 6}
  /\ ret.op = "get_launcher_API"
  /\ ret.api = 6

\* C2: the registry is sorted by non-increasing priority from head to tail.
C2_PriorityOrder ==
  \A i, j \in 1..Len(_available_APIs) :
    i < j => PriorityOf(heap, _available_APIs[i]) >= PriorityOf(heap, _available_APIs[j])

\* A registration that put the new API strictly inside a registry that holds
\* several priorities.
C2_Witness ==
  /\ ret.op = "register_API"
  /\ Len(_available_APIs) >= 3
  /\ \E k \in 2..(Len(_available_APIs) - 1) :
       /\ _available_APIs[k] = ret.api
       /\ PriorityOf(heap, _available_APIs[k - 1]) > PriorityOf(heap, ret.api)
       /\ PriorityOf(heap, ret.api) >= PriorityOf(heap, _available_APIs[k + 1])

\* C3: when some registered API is active (and every is_launcher() called
\* reports True or False), get_launcher_API() returns the first active entry,
\* calls is_launcher() of the entries up to it and of no later one, and no
\* active registered API has a higher priority.
C3_FirstActiveSelected ==
  (/\ ret.op = "get_launcher_API"
   /\ SomeActive(_available_APIs, launchers)
   /\ ~IsLauncherFails(_available_APIs, heap, launchers, CallerFilters)) =>
    LET m == FirstActive(_available_APIs, launchers) IN
      /\ ret.kind = "return"
      /\ ~ret.fresh
      /\ ret.api = _available_APIs[m]
      /\ ret.api \in Registered
      /\ ret.consulted = [k \in 1..m |-> k]
      /\ \A o \in Registered \cap launchers :
           PriorityOf(heap, o) <= PriorityOf(heap, ret.api)

\* The head is inactive, two later entries are active, the first is returned.
C3_Witness ==
  /\ ret.op = "get_launcher_API"
  /\ Len(_available_APIs) >= 3
  /\ _available_APIs[1] \notin launchers
  /\ _available_APIs[2] \in launchers
  /\ _available_APIs[3] \in launchers
  /\ _available_APIs[3] # _available_APIs[2]
  /\ ret.api = _available_APIs[2]

\* C4: when no registered API is active (every is_launcher() reports False),
\* get_launcher_API() returns (does not raise) a DefaultAPI instance that is no
\* registered object and differs from the instance the call before returned,
\* with the same values, and leaves the registry and every other field as
\* they were.
C4_Fallback ==
  [][ (/\ ret'.op = "get_launcher_API"
       /\ ~SomeActive(_available_APIs, launchers)
       /\ ~IsLauncherFails(_available_APIs, heap, launchers, CallerFilters)) =>
        /\ ret'.kind = "return"
        /\ ret'.fresh
        /\ ret'.val = <<"DefaultAPI", DefaultPriority>>
        /\ ret'.api \notin Registered
        /\ ret'.api # ret'.held
        /\ (ret.op = "get_launcher_API" /\ ret.fresh) =>
             (ret'.held = ret.api /\ ret'.api # ret.api /\ ret'.val = ret.val)
        /\ UNCHANGED <<heap, _available_APIs, launchers, __dir, ambient>> ]_vars

\* Two consecutive calls fell back, with several inactive APIs registered.
C4_Witness ==
  /\ ret.op = "get_launcher_API"
  /\ ret.fresh
  /\ ret.held < 0
  /\ Len(_available_APIs) >= 2
  /\ ~SomeActive(_available_APIs, launchers)

\* C5 as stated: no entry of the registry is an instance of DefaultAPI.
C5_DefaultNeverRegistered ==
  \A i \in 1..Len(_available_APIs) : heap[_available_APIs[i]].cls # "DefaultAPI"

\* C5 amended: the registry always holds an instance of DefaultAPI, registered
\* by the discovery run at construction; besides, a DefaultAPI built by
\* get_launcher_API() is returned only when no registered API is active, and
\* that instance is not an entry of the registry.
C5_DefaultRegisteredByDiscovery ==
  /\ \E i \in 1..Len(_available_APIs) : heap[_available_APIs[i]].cls = "DefaultAPI"
  /\ (ret.op = "get_launcher_API" /\ ret.fresh) =>
       (~SomeActive(_available_APIs, launchers) /\ ret.api \notin Registered)
  /\ (ret.op = "get_launcher_API" /\ ret.kind = "return" /\ ~ret.fresh) =>
       ret.api \in launchers

\* The registered DefaultAPI is inactive like every other entry, and
\* get_launcher_API() returned a DefaultAPI built for the occasion.
C5_Witness ==
  /\ ret.op = "get_launcher_API"
  /\ ret.fresh
  /\ heap[_available_APIs[Len(_available_APIs)]].cls = "DefaultAPI"
  /\ Len(_available_APIs) >= 2

RECURSIVE IsSubSeq(_, _)
\* s is t with some entries left out (relative order kept)
IsSubSeq(s, t) ==
  IF s = <<>> THEN TRUE
  ELSE IF t = <<>> THEN FALSE
  ELSE IF Head(s) = Head(t) THEN IsSubSeq(Tail(s), Tail(t))
  ELSE IsSubSeq(s, Tail(t))

\* C6: a register_API call returns normally, makes the registry one longer by
\* inserting the object (even one that is registered already), keeps the
\* entries it had in their order and leaves __dir and the rest untouched; no
\* operation makes the registry shorter, drops or reorders an entry, or
\* changes __dir.
C6_RegistrationAdditive ==
  [][ /\ (ret'.op = "register_API") =>
           /\ ret'.kind = "return"
           /\ Len(_available_APIs') = Len(_available_APIs) + 1
           /\ \E k \in 1..(Len(_available_APIs) + 1) : InsertedAt(k)
           /\ UNCHANGED <<launchers, __dir, ambient>>
           /\ SubSeq(heap', 1, Len(heap)) = heap
      /\ Len(_available_APIs') >= Len(_available_APIs)
      /\ IsSubSeq(_available_APIs, _available_APIs')
      /\ __dir' = __dir
      /\ __dir = make_dir ]_vars

\* register_API was called with an object that was registered already.
C6_Witness ==
  /\ ret.op = "register_API"
  /\ Cardinality({i \in 1..Len(_available_APIs) : _available_APIs[i] = ret.api}) = 2
  /\ Len(_available_APIs) >= 3

\* The names of module for which C7 says crawl_module_for_APIs registers: a
\* class that is a strict subclass of API ...
SubclassNames(module) ==
  {k \in 1..Len(module) :
     module[k].kind = "class" /\ module[k].cls \in StrictSubclasses}

\* ... or an object that is an instance of a strict subclass of API.
InstanceNames(h, module) ==
  {k \in 1..Len(module) :
     module[k].kind = "instance" /\ h[module[k].obj].cls \in StrictSubclasses}

Occurrences(reg, o) == Cardinality({i \in 1..Len(reg) : reg[i] = o})

\* C7: crawl_module_for_APIs(module) registers one new no-argument instance per
\* name bound to a strict subclass of API and the object itself per name bound
\* to an instance of a strict subclass; the registry grows by the number of
\* these names and no other name changes anything.
C7_DiscoveryExact ==
  [][ (ret'.op = "crawl_module_for_APIs") =>
        LET module == ret'.val
            classes == SubclassNames(module)
            instances == InstanceNames(heap, module)
        IN /\ ret'.kind = "return"
           /\ Len(_available_APIs') =
                Len(_available_APIs) + Cardinality(classes) + Cardinality(instances)
           /\ Len(heap') = Len(heap) + Cardinality(classes)
           /\ SubSeq(heap', 1, Len(heap)) = heap
           \* the new objects are instances of the classes, in dir() order
           /\ \A o \in (Len(heap) + 1)..Len(heap') :
                \E k \in classes :
                  /\ Cardinality({j \in classes : j < k}) = o - Len(heap) - 1
                  /\ heap'[o] = [cls |-> module[k].cls, priority |-> module[k].priority]
           \* each new object is registered once, each bound instance once per name
           /\ \A o \in 1..Len(heap') :
                Occurrences(_available_APIs', o) =
                  IF o > Len(heap) THEN 1
                  ELSE Occurrences(_available_APIs, o)
                       + Cardinality({k \in instances : module[k].obj = o})
           /\ IsSubSeq(_available_APIs, _available_APIs')
           /\ UNCHANGED <<launchers, __dir, ambient>> ]_vars

\* The plugin namespace (a subclass, an instance of a subclass, the contract,
\* an instance of the contract, unrelated names) was crawled into a registry
\* that already held two entries.
C7_Witness ==
  /\ ret.op = "crawl_module_for_APIs"
  /\ ret.val = plugin
  /\ Len(_available_APIs) = 4
  /\ Occurrences(_available_APIs, 1) = 1

\* Class of the API that is first-active in the registry now (DefaultAPI when
\* none is active).
ActiveClass(reg, h, L) ==
  IF SomeActive(reg, L) THEN h[reg[FirstActive(reg, L)]].cls ELSE "DefaultAPI"

\* The call was answered by the API that is first-active in the registry now.
AnsweredByFirstActive(c, reg, L) ==
  IF SomeActive(reg, L)
    THEN ~c.fresh /\ c.api = reg[FirstActive(reg, L)]
    ELSE c.fresh /\ c.api \notin {reg[i] : i \in 1..Len(reg)}

\* The selection of the access fails, or the query of the selected API does
\* before it returns or signals "value unavailable": a warning is issued that
\* the filters turn into an exception.
WarningFails(reg, h, L, Q, flt) ==
  \/ IsLauncherFails(reg, h, L, flt)
  \/ TurnedIntoError(QueryWarns(ActiveClass(reg, h, L), Q), flt)

\* C8: an access to a forwarded query or to current_API changes no field of
\* the facade (registry, its order, __dir: nothing is stored) and, every
\* is_launcher() reporting True or False, is answered by the API that is
\* first-active at the time of the access, whatever was selected or registered
\* before; accesses to the same name without a change in between end the same
\* way with equal values.
C8_ForwardingPure ==
  [][ /\ (ret'.op \in {"redirect", "current_API"}) =>
           /\ UNCHANGED <<heap, _available_APIs, launchers, __dir, ambient>>
           /\ ~IsLauncherFails(_available_APIs', heap', launchers', CallerFilters') =>
                AnsweredByFirstActive(ret', _available_APIs', launchers')
      /\ (ret'.op = "redirect") =>
           LET c == ret'.calls[1]
               cls == ActiveClass(_available_APIs', heap', launchers')
           IN /\ Len(ret'.calls) = 1
              /\ ~IsLauncherFails(_available_APIs', heap', launchers', CallerFilters') =>
                   AnsweredByFirstActive(c, _available_APIs', launchers')
              /\ (/\ ~QueryRaises(cls, c.q)
                  /\ ~WarningFails(_available_APIs', heap', launchers', c.q,
                                   CallerFilters')) =>
                   (ret'.kind = "return" /\ ret'.val = QueryValue(cls, c.q))
              /\ (ret.op = "redirect" /\ ret.calls[1].q = c.q) =>
                   (ret'.kind = ret.kind /\ ret'.val = ret.val)
      /\ (ret'.op = "current_API") =>
           /\ ~IsLauncherFails(_available_APIs', heap', launchers', CallerFilters') =>
                (/\ ret'.kind = "return"
                 /\ ret'.val = Name(ActiveClass(_available_APIs', heap', launchers')))
           /\ (ret.op = "current_API") => ret'.val = ret.val ]_vars

\* A forwarded query was answered by an entry that is not the head of the
\* registry, the head being inactive and a later entry active as well.
C8_Witness ==
  /\ ret.op = "redirect"
  /\ ret.kind = "return"
  /\ Len(_available_APIs) = 3
  /\ _available_APIs[1] \notin launchers
  /\ _available_APIs[2] \in launchers
  /\ _available_APIs[3] \in launchers
  /\ ret.api = _available_APIs[2]
  /\ heap[_available_APIs[2]].cls # heap[_available_APIs[3]].cls

\* Every execution of a forwarding accessor the last operation made.
ForwardedCalls ==
  IF ret.op \in {"redirect", "summary", "summary_str"}
    THEN {ret.calls[k] : k \in 1..Len(ret.calls)}
    ELSE {}

\* The call handed the warnings ws to warning_filter.warn in one call (no call
\* when there was none), let none reach the ambient channel and returned the
\* value of the query.
CapturedAndHandedOnce(c, ws) ==
  /\ c.leaked = <<>>
  /\ c.handed = IF ws = <<>> THEN <<>> ELSE <<ws>>
  /\ c.val = QueryValue(ActiveClass(_available_APIs, heap, launchers), c.q)

\* C9 as stated: every forwarded query that returns hands the n >= 1 warnings
\* issued during it to the warning filter in exactly one call, and makes no
\* call when n = 0.
C9_EveryWarningHandedOnce ==
  \A c \in ForwardedCalls :
    c.kind = "return" => CapturedAndHandedOnce(c, c.emitted)

\* The filters in force while the forwarded calls of the last operation ran:
\* the caller's, in summary() behind the one that ignores IdrTorchWarning.
FiltersInForce ==
  Filters(IF ret.op = "summary" THEN {IdrTorchWarning} ELSE {}, ambient)

\* The positions of the warnings ws that the filters let through: the
\* warnings they do not ignore and, under "default", of equal warnings (same
\* category, text and line) the first only.
LetThrough(ws, flt) ==
  {k \in 1..Len(ws) :
     /\ Category(ws[k]) \notin flt.ignored
     /\ flt.action # "ignore"
     /\ flt.action = "default" => \A j \in 1..(k - 1) : ws[j] # ws[k]}

\* The entries of ws at the positions in S, in their order.
AtPositions(ws, S) ==
  [i \in 1..Cardinality(S) |->
     ws[CHOOSE k \in S : Cardinality({j \in S : j < k}) = i - 1]]

\* C9 amended: a forwarded query that returns lets no warning reach the
\* ambient channel and returns the value of the query; of the warnings issued
\* during it, it hands to the warning filter those that the warnings filters
\* in force let through (none of an ignored category, such as IdrTorchWarning
\* inside summary(); under the action "default" one for all equal warnings),
\* in exactly one call, and makes no call when they let none through.  Under
\* the action "error" the first warning that is not ignored ends the call: it
\* is raised as an exception and nothing is handed over.
C9_LetThroughHandedOnce ==
  \A c \in ForwardedCalls :
    /\ c.kind = "return" =>
         CapturedAndHandedOnce(c, AtPositions(c.emitted, LetThrough(c.emitted, FiltersInForce)))
    /\ TurnedIntoError(c.emitted, FiltersInForce) =>
         /\ c.kind = "raise"
         /\ c.val = WarningError(c.emitted[Len(c.emitted)])
         /\ Category(c.emitted[Len(c.emitted)]) \notin FiltersInForce.ignored
         /\ \A k \in 1..(Len(c.emitted) - 1) :
              Category(c.emitted[k]) \in FiltersInForce.ignored
         /\ c.handed = <<>>
         /\ c.leaked = <<>>

\* Under the default filters a forwarded query issued four warnings, two of
\* them equal (is_launcher() of two instances of a class) and two in the query,
\* and returned: three records were handed over in one call.
C9_Witness ==
  /\ ret.op = "redirect"
  /\ ret.kind = "return"
  /\ ambient = "default"
  /\ Len(ret.calls[1].emitted) = 4
  /\ ret.calls[1].emitted[1] = ret.calls[1].emitted[2]
  /\ Len(ret.calls[1].handed) = 1
  /\ Len(ret.calls[1].handed[1]) = 3

\* C10: when the query of the selected API (a registered one, or the
\* DefaultAPI built because none is active) signals "value unavailable", the
\* accessor ends with that error of that API, no other API is asked, no value
\* is substituted, and the registry is unchanged.
C10_ErrorsPropagate ==
  [][ (ret'.op = "redirect") =>
        LET c == ret'.calls[1]
            cls == ActiveClass(_available_APIs, heap, launchers)
        IN (/\ QueryRaises(cls, c.q)
            /\ ~WarningFails(_available_APIs, heap, launchers, c.q, CallerFilters)) =>
             /\ ret'.kind = "raise"
             /\ ret'.val = ValueUnavailable(cls, c.q)
             /\ AnsweredByFirstActive(c, _available_APIs, launchers)
             /\ Len(ret'.calls) = 1
             /\ UNCHANGED <<heap, _available_APIs, launchers, __dir, ambient>> ]_vars

\* The query of the selected API signalled "value unavailable" although a
\* later active entry of the registry answers that query.
C10_Witness ==
  /\ ret.op = "redirect"
  /\ ret.kind = "raise"
  /\ ret.val[1] = "unavailable"
  /\ ~ret.fresh
  /\ \E i \in 1..Len(_available_APIs) :
       /\ _available_APIs[i] \in launchers
       /\ ~QueryRaises(heap[_available_APIs[i]].cls, ret.calls[1].q)

\* The query of the DefaultAPI built by the fallback signalled "value
\* unavailable".
C10_FallbackRaised ==
  ret.op = "redirect" /\ ret.kind = "raise" /\ ret.fresh /\ ret.val[1] = "unavailable"

====
